---- MODULE Spec2Model ----
(***************************************************************************)
(* A model of package cleanuphttp (cleanuphttp.go): one CleanupHTTP        *)
(* instance, the goroutine that calls Serve, the two goroutines every      *)
(* Serve call starts (the server goroutine and handleSignal), the          *)
(* operating system delivering SIGINT/SIGTERM, and client goroutines that  *)
(* call the Push and Pop methods concurrently.                             *)
(*                                                                         *)
(* Every step is one atomic effect of the code: one atomic load or         *)
(* compare-and-swap of closing, one critical section of routineStack.mu,   *)
(* one channel operation, one plain read or write of interrupted.          *)
(***************************************************************************)
EXTENDS Integers, Sequences, FiniteSets, TLC

(***************************************************************************)
(* Bounds of the model.                                                    *)
(***************************************************************************)
\* accepted Push calls over a behaviour
MaxPush == 2
\* signals the operating system delivers over a behaviour
MaxSignals == 2
\* Serve calls made on the instance, one after the other
MaxServe == 2

\* the client goroutines calling Push and Pop
Callers == {"c1", "c2"}
\* the two routineStacks of the instance
Stacks == {"pre", "post"}
\* the (routine, arg) pairs clients register, in the order of their Push
\* calls, as in cleanuphttp_test.go
Registrations ==
    << [routine |-> "cleanup1", arg |-> 2],
       [routine |-> "cleanup2", arg |-> 1],
       [routine |-> "cleanup3", arg |-> 4],
       [routine |-> "cleanup4", arg |-> 3] >>
\* timeouts passed to Serve: negative, zero, positive
Timeouts == {-1, 0, 1}
\* the calls a cleanup routine makes on the instance while it runs
CallbackOps == {"push", "pop"}
\* what Server.ListenAndServe returns
ListenErrs == {"ErrServerClosed", "error"}
\* what Server.Shutdown returns
ShutdownErrs == {"nil", "DeadlineExceeded", "error"}

Calls == 1..MaxServe

VARIABLES
    stacks,       \* preRoutines.routines and postRoutines.routines
    closing,      \* CleanupHTTP.closing
    interrupted,  \* CleanupHTTP.interrupted
    pc,           \* where the goroutine calling Serve is
    serveNo,      \* how many Serve calls were made on the instance
    timeout,      \* the argument of the running Serve call (0 when none runs)
    ctx,          \* the context the running Serve call built for Shutdown
    cur,          \* the cleanupRoutine a drain has popped and is about to invoke
    quit,         \* per Serve call: how many times close(quit) was executed
    intr,         \* per Serve call: signals buffered in its interrupt channel
    srv,          \* per Serve call: where its server goroutine is
    sig,          \* per Serve call: where its handleSignal goroutine is
    caller,       \* per client goroutine: the Push or Pop call in progress
    panicked,     \* a goroutine panicked (close of a closed channel)
    \* history of the behaviour, read by the properties only
    events,       \* what the latest Serve call did, in order
    pushed,       \* per stack: the cleanupRoutines appended, in order
    returned,     \* the <<client, cleanupRoutine>> pairs Pop calls returned
    late,         \* a client changed a stack while closing /= 0
    winners,      \* the trigger attempts whose compare-and-swap succeeded
    nPush,        \* Push calls accepted so far
    nSignals,     \* signals delivered so far
    nHandled      \* signals handleSignal goroutines received so far

vars == <<stacks, closing, interrupted, pc, serveNo, timeout, ctx, cur, quit,
          intr, srv, sig, caller, panicked, events, pushed, returned, late,
          winners, nPush, nSignals, nHandled>>

hist == <<events, pushed, returned, late, winners, nPush,
          nSignals, nHandled>>

\* cleanupRoutine{}: the zero value
NoRoutine == [id |-> 0, routine |-> "nil", arg |-> 0]

\* a client goroutine that is in no call
Idle == [pc |-> "idle", stack |-> "none", act |-> NoRoutine, ok |-> FALSE]

Init ==
    /\ stacks = [s \in Stacks |-> <<>>]
    /\ closing = 0
    /\ interrupted = FALSE
    /\ pc = "idle"
    /\ serveNo = 0
    /\ timeout = 0
    /\ ctx = "none"
    /\ cur = NoRoutine
    /\ quit = [n \in Calls |-> 0]
    /\ intr = [n \in Calls |-> 0]
    /\ srv = [n \in Calls |-> "none"]
    /\ sig = [n \in Calls |-> "none"]
    /\ caller = [c \in Callers |-> Idle]
    /\ panicked = FALSE
    /\ events = <<>>
    /\ pushed = [s \in Stacks |-> <<>>]
    /\ returned = {}
    /\ late = FALSE
    /\ winners = {}
    /\ nPush = 0
    /\ nSignals = 0
    /\ nHandled = 0

(***************************************************************************)
(* routineStack                                                            *)
(***************************************************************************)
\* StackPush that stores r over the last element: the update a second
\* append loses when both read the same length
StackPushOverwrite(rs, r) ==
    IF Len(rs) = 0 THEN <<r>> ELSE [rs EXCEPT ![Len(rs)] = r]

\* routineStack.push, under mu: append
StackPush(rs, r) == Append(rs, r)

\* StackPop taking the oldest element (index 0) instead of the newest
StackPopFifo(rs) ==
    IF Len(rs) = 0
    THEN [routine |-> NoRoutine, ok |-> FALSE, rest |-> rs]
    ELSE [routine |-> rs[1], ok |-> TRUE, rest |-> Tail(rs)]

\* StackPop that reports found on an empty slice
StackPopEmptyFound(rs) ==
    IF Len(rs) = 0
    THEN [routine |-> NoRoutine, ok |-> TRUE, rest |-> rs]
    ELSE [routine |-> rs[Len(rs)], ok |-> TRUE,
          rest |-> SubSeq(rs, 1, Len(rs) - 1)]

\* StackPop that returns the last element without truncating the slice
StackPopNoTruncate(rs) ==
    IF Len(rs) = 0
    THEN [routine |-> NoRoutine, ok |-> FALSE, rest |-> rs]
    ELSE [routine |-> rs[Len(rs)], ok |-> TRUE, rest |-> rs]

\* routineStack.pop, under mu: the last element and the slice without it,
\* or the zero value and false on an empty slice
StackPop(rs) ==
    IF Len(rs) = 0
    THEN [routine |-> NoRoutine, ok |-> FALSE, rest |-> rs]
    ELSE [routine |-> rs[Len(rs)], ok |-> TRUE,
          rest |-> SubSeq(rs, 1, Len(rs) - 1)]

(***************************************************************************)
(* The gate: closing and the quit channel of a Serve call                  *)
(***************************************************************************)
\* CleanupHTTP.isClosed
isClosed == closing /= 0

\* atomic.CompareAndSwapInt32(&c.closing, 0, 1) by goroutine who of Serve
\* call n
CompareAndSwap(n, who) ==
    IF closing = 0
    THEN /\ closing' = 1
         /\ winners' = winners \cup {<<n, who>>}
    ELSE UNCHANGED <<closing, winners>>

\* close(quit) of Serve call n; closing a closed channel panics
CloseQuit(n) ==
    /\ quit' = [quit EXCEPT ![n] = @ + 1]
    /\ panicked' = (panicked \/ quit[n] > 0)

(***************************************************************************)
(* CleanupHTTP.Serve: the calling goroutine                                *)
(***************************************************************************)
\* NextPhase with postCleanup called where it is written (line 53) instead
\* of deferred
NextPhaseNoDefer(p) ==
    CASE p = "wait" -> "pre"
      [] p = "pre"  -> "post"
      [] p = "post" -> "stop"
      [] p = "stop" -> "done"

\* the order of Serve's body: <-quit, preCleanup, Shutdown, the deferred
\* postCleanup, return
NextPhase(p) ==
    CASE p = "wait" -> "pre"
      [] p = "pre"  -> "stop"
      [] p = "stop" -> "post"
      [] p = "post" -> "done"

\* AfterShutdown returning from Serve at once when Shutdown failed
AfterShutdownReturnOnError(err) ==
    IF err = "nil" THEN NextPhase("stop") ELSE "done"

\* where Serve goes when Shutdown has returned err: the error is logged,
\* the function ends and its deferred calls run
AfterShutdown(err) == NextPhase("stop")

\* StackOf with the two stacks exchanged
StackOfSwapped(p) == IF p = "pre" THEN "post" ELSE "pre"

\* preCleanup drains preRoutines, postCleanup drains postRoutines
StackOf(p) == IF p = "pre" THEN "pre" ELSE "post"

\* MakeContext with the test timeout >= 0: a zero timeout gets a deadline
MakeContextZeroDeadline(t) == IF t >= 0 THEN "WithTimeout" ELSE "Background"

\* MakeContext that never sets a deadline
MakeContextNoDeadline(t) == "Background"

\* the context Serve hands to Shutdown
MakeContext(t) == IF t > 0 THEN "WithTimeout" ELSE "Background"

Event(k, s, a, o) == [kind |-> k, stack |-> s, act |-> a, out |-> o]

\* GateAtReturn opening the gate again when Serve returns
GateAtReturnReopen(g) == 0

\* GateAtReturn storing a third value in closing when Serve returns
GateAtReturnClosed(g) == 2

\* closing when Serve returns, g being its value before: Serve has no write
\* of closing (the only writes are the compare-and-swaps of lines 46, 141)
GateAtReturn(g) == g

\* control reaches phase p, ev being what the call did so far; reaching
\* "stop" builds the context and calls Server.Shutdown, reaching "done"
\* returns from Serve and ends the life of its locals
Goto(p, ev) ==
    /\ pc' = p
    /\ closing' = IF p = "done" THEN GateAtReturn(closing) ELSE closing
    /\ events' = IF p = "stop"
                 THEN Append(ev, Event("stopBegin", "none", NoRoutine,
                                       MakeContext(timeout)))
                 ELSE ev
    /\ ctx' = CASE p = "stop" -> MakeContext(timeout)
                [] p = "done" -> "none"
                [] OTHER -> ctx
    /\ timeout' = IF p = "done" THEN 0 ELSE timeout

\* StartServe that opens the gate again
StartServeReopen(t) ==
    /\ serveNo < MaxServe
    /\ serveNo' = serveNo + 1
    /\ timeout' = t
    /\ ctx' = "none"
    /\ pc' = "wait"
    /\ srv' = [srv EXCEPT ![serveNo + 1] = "listen"]
    /\ sig' = [sig EXCEPT ![serveNo + 1] = "recv"]
    /\ events' = <<>>
    /\ closing' = 0
    /\ UNCHANGED <<stacks, interrupted, cur, quit, intr, caller, panicked,
                   pushed, returned, late, winners, nPush,
                   nSignals, nHandled>>

\* lines 35-49: make the channels, subscribe, start the two goroutines
StartServe(t) ==
    /\ serveNo < MaxServe
    /\ serveNo' = serveNo + 1
    /\ timeout' = t
    /\ ctx' = "none"
    /\ pc' = "wait"
    /\ srv' = [srv EXCEPT ![serveNo + 1] = "listen"]
    /\ sig' = [sig EXCEPT ![serveNo + 1] = "recv"]
    /\ events' = <<>>
    /\ UNCHANGED <<stacks, closing, interrupted, cur, quit, intr, caller,
                   panicked, pushed, returned, late, winners, nPush,
                   nSignals, nHandled>>

\* the first Serve call on the instance
Serve(t) ==
    /\ ~panicked
    /\ pc = "idle"
    /\ StartServe(t)

\* a Serve call on the instance after an earlier one returned
ServeAgain(t) ==
    /\ ~panicked
    /\ pc = "done"
    /\ StartServe(t)

\* Wake that does not wait for quit to be closed
WakeNoWait ==
    /\ ~panicked
    /\ pc = "wait"
    /\ Goto(NextPhase("wait"), events)
    /\ UNCHANGED <<stacks, interrupted, serveNo, cur, quit, intr,
                   srv, sig, caller, panicked, pushed, returned, late,
                   winners, nPush, nSignals, nHandled>>

\* <-quit
Wake ==
    /\ ~panicked
    /\ pc = "wait"
    /\ quit[serveNo] > 0
    /\ Goto(NextPhase("wait"), events)
    /\ UNCHANGED <<stacks, interrupted, serveNo, cur, quit, intr,
                   srv, sig, caller, panicked, pushed, returned, late,
                   winners, nPush, nSignals, nHandled>>

\* cleanup: one stack.pop() of the loop; an empty stack ends the loop
DrainPop ==
    /\ ~panicked
    /\ pc \in {"pre", "post"}
    /\ cur = NoRoutine
    /\ LET s == StackOf(pc)
           r == StackPop(stacks[s])
       IN  IF r.ok
           THEN /\ stacks' = [stacks EXCEPT ![s] = r.rest]
                /\ cur' = r.routine
                /\ UNCHANGED <<pc, closing, timeout, ctx, events>>
           ELSE /\ Goto(NextPhase(pc),
                        Append(events, Event("drainEnd", s, NoRoutine, "none")))
                /\ UNCHANGED <<stacks, cur>>
    /\ UNCHANGED <<interrupted, serveNo, quit, intr, srv, sig,
                   caller, panicked, pushed, returned, late, winners, nPush,
                   nSignals, nHandled>>

\* ReentrantCall without the closed-check of cleanupPush and cleanupPop
ReentrantCallUnchecked(op, s, r) ==
    IF op = "push"
    THEN [stacks EXCEPT ![s] = StackPush(@, r)]
    ELSE [stacks EXCEPT ![s] = StackPop(@).rest]

\* the stacks after a cleanup routine, while it runs, has called Push (of
\* r) or Pop on stack s: cleanupPush and cleanupPop return at their
\* closed-check when isClosed, and work on the stack otherwise (no lock is
\* held while a routine runs)
ReentrantCall(op, s, r) ==
    IF isClosed
    THEN stacks
    ELSE IF op = "push"
         THEN [stacks EXCEPT ![s] = StackPush(@, r)]
         ELSE [stacks EXCEPT ![s] = StackPop(@).rest]

\* cleanup: routine(arg).  The routine is taken to call Push (registering
\* itself again) or Pop once, on either stack, while it runs; the event
\* records how that call fared at the closed-check.
DrainInvoke ==
    /\ ~panicked
    /\ pc \in {"pre", "post"}
    /\ cur /= NoRoutine
    /\ stacks' \in {ReentrantCall(op, s, cur) : op \in CallbackOps, s \in Stacks}
    /\ events' = Append(events, Event("run", StackOf(pc), cur,
                                      IF isClosed THEN "rejected" ELSE "accepted"))
    /\ cur' = NoRoutine
    /\ UNCHANGED <<closing, interrupted, pc, serveNo, timeout, ctx,
                   quit, intr, srv, sig, caller, panicked, pushed, returned,
                   late, winners, nPush, nSignals, nHandled>>

\* Server.Shutdown(ctx) returns e; only a context with a deadline expires
ShutdownReturn(e) ==
    /\ ~panicked
    /\ pc = "stop"
    /\ e = "DeadlineExceeded" => ctx = "WithTimeout"
    /\ Goto(AfterShutdown(e),
            Append(events, Event("stopEnd", "none", NoRoutine, e)))
    /\ UNCHANGED <<stacks, interrupted, serveNo, cur, quit, intr,
                   srv, sig, caller, panicked, pushed, returned, late,
                   winners, nPush, nSignals, nHandled>>

(***************************************************************************)
(* The server goroutine of Serve call n (lines 41-49)                      *)
(***************************************************************************)
\* ListenReturn with the compare-and-swap moved into the if of line 42: the
\* goroutine ends without a trigger attempt when the server was closed
ListenReturnTriggerInIf(n, e) ==
    /\ ~panicked
    /\ srv[n] = "listen"
    /\ srv' = [srv EXCEPT ![n] = IF e = "ErrServerClosed" THEN "end" ELSE "cas"]
    /\ UNCHANGED <<stacks, closing, interrupted, pc, serveNo, timeout, ctx,
                   cur, quit, intr, sig, caller, panicked, hist>>

\* c.Server.ListenAndServe() returns e; err lives in the if statement of
\* line 42 only, which logs it unless it is ErrServerClosed, and control
\* reaches line 46 whatever it was
ListenReturn(n, e) ==
    /\ ~panicked
    /\ srv[n] = "listen"
    /\ srv' = [srv EXCEPT ![n] = "cas"]
    /\ UNCHANGED <<stacks, closing, interrupted, pc, serveNo, timeout, ctx,
                   cur, quit, intr, sig, caller, panicked, hist>>

\* ServerTrigger closing quit without the compare-and-swap deciding it
ServerTriggerUnguarded(n) ==
    /\ ~panicked
    /\ srv[n] = "cas"
    /\ closing' = 1
    /\ winners' = winners \cup {<<n, "server">>}
    /\ srv' = [srv EXCEPT ![n] = "close"]
    /\ UNCHANGED <<stacks, interrupted, pc, serveNo, timeout, ctx, cur, quit,
                   intr, sig, caller, panicked, events, pushed, returned,
                   late, nPush, nSignals, nHandled>>

\* line 46
ServerTrigger(n) ==
    /\ ~panicked
    /\ srv[n] = "cas"
    /\ CompareAndSwap(n, "server")
    /\ srv' = [srv EXCEPT ![n] = IF closing = 0 THEN "close" ELSE "end"]
    /\ UNCHANGED <<stacks, interrupted, pc, serveNo, timeout, ctx, cur, quit,
                   intr, sig, caller, panicked, events, pushed, returned,
                   late, nPush, nSignals, nHandled>>

\* line 47
ServerClose(n) ==
    /\ ~panicked
    /\ srv[n] = "close"
    /\ CloseQuit(n)
    /\ srv' = [srv EXCEPT ![n] = "end"]
    /\ UNCHANGED <<stacks, closing, interrupted, pc, serveNo, timeout, ctx,
                   cur, intr, sig, caller, hist>>

(***************************************************************************)
(* The operating system and handleSignal of Serve call n                   *)
(***************************************************************************)
\* SIGINT or SIGTERM arrives: package signal sends it, without blocking, to
\* every channel passed to signal.Notify (capacity 1; dropped when full).
\* No Serve call ever unsubscribes its channel.
Deliver ==
    /\ ~panicked
    /\ serveNo > 0
    /\ nSignals < MaxSignals
    /\ nSignals' = nSignals + 1
    /\ intr' = [n \in Calls |-> IF sig[n] /= "none" THEN 1 ELSE intr[n]]
    /\ UNCHANGED <<stacks, closing, interrupted, pc, serveNo, timeout, ctx,
                   cur, quit, srv, sig, caller, panicked, events, pushed,
                   returned, late, winners, nPush, nHandled>>

\* for i := range interrupt
SigRecv(n) ==
    /\ ~panicked
    /\ sig[n] = "recv"
    /\ intr[n] > 0
    /\ intr' = [intr EXCEPT ![n] = 0]
    /\ sig' = [sig EXCEPT ![n] = "check"]
    /\ nHandled' = nHandled + 1
    /\ UNCHANGED <<stacks, closing, interrupted, pc, serveNo, timeout, ctx,
                   cur, quit, srv, caller, panicked, events, pushed, returned,
                   late, winners, nPush, nSignals>>

\* SigCheck without the interrupted test
SigCheckNoGuard(n) ==
    /\ ~panicked
    /\ sig[n] = "check"
    /\ sig' = [sig EXCEPT ![n] = "set"]
    /\ UNCHANGED <<stacks, closing, interrupted, pc, serveNo, timeout, ctx,
                   cur, quit, intr, srv, caller, panicked, hist>>

\* if c.interrupted { continue }
SigCheck(n) ==
    /\ ~panicked
    /\ sig[n] = "check"
    /\ sig' = [sig EXCEPT ![n] = IF interrupted THEN "recv" ELSE "set"]
    /\ UNCHANGED <<stacks, closing, interrupted, pc, serveNo, timeout, ctx,
                   cur, quit, intr, srv, caller, panicked, hist>>

\* c.interrupted = true
SigSet(n) ==
    /\ ~panicked
    /\ sig[n] = "set"
    /\ interrupted' = TRUE
    /\ sig' = [sig EXCEPT ![n] = "isClosed"]
    /\ UNCHANGED <<stacks, closing, pc, serveNo, timeout, ctx, cur, quit,
                   intr, srv, caller, panicked, hist>>

\* if c.isClosed() { continue }
SigIsClosed(n) ==
    /\ ~panicked
    /\ sig[n] = "isClosed"
    /\ sig' = [sig EXCEPT ![n] = IF isClosed THEN "recv" ELSE "cas"]
    /\ UNCHANGED <<stacks, closing, interrupted, pc, serveNo, timeout, ctx,
                   cur, quit, intr, srv, caller, panicked, hist>>

\* line 141
SigTrigger(n) ==
    /\ ~panicked
    /\ sig[n] = "cas"
    /\ CompareAndSwap(n, "signal")
    /\ sig' = [sig EXCEPT ![n] = IF closing = 0 THEN "close" ELSE "recv"]
    /\ UNCHANGED <<stacks, interrupted, pc, serveNo, timeout, ctx, cur, quit,
                   intr, srv, caller, panicked, events, pushed, returned,
                   late, nPush, nSignals, nHandled>>

\* line 142
SigClose(n) ==
    /\ ~panicked
    /\ sig[n] = "close"
    /\ CloseQuit(n)
    /\ sig' = [sig EXCEPT ![n] = "recv"]
    /\ UNCHANGED <<stacks, closing, interrupted, pc, serveNo, timeout, ctx,
                   cur, intr, srv, caller, hist>>

(***************************************************************************)
(* Client goroutines: PreCleanupPush, PostCleanupPush, PreCleanupPop,      *)
(* PostCleanupPop (and the package-level functions that forward to the     *)
(* default instance)                                                       *)
(***************************************************************************)
\* a finished call that hands a result to the client: Pop's (routine, arg,
\* found), and for a rejected Push the log line "Push failed: closed"
Ret(a, k) == [pc |-> "ret", stack |-> "none", act |-> a, ok |-> k]

\* cleanupPush, lines 102-110: the isClosed check
PushCall(c, s) ==
    /\ ~panicked
    /\ caller[c].pc = "idle"
    /\ IF isClosed
       THEN /\ caller' = [caller EXCEPT ![c] = Ret(NoRoutine, FALSE)]
            /\ UNCHANGED nPush
       ELSE /\ nPush < MaxPush
            /\ nPush < Len(Registrations)
            /\ nPush' = nPush + 1
            /\ caller' = [caller EXCEPT ![c] =
                   [pc |-> "push", stack |-> s,
                    act |-> [id |-> nPush + 1,
                             routine |-> Registrations[nPush + 1].routine,
                             arg |-> Registrations[nPush + 1].arg],
                    ok |-> FALSE]]
    /\ UNCHANGED <<stacks, closing, interrupted, pc, serveNo, timeout, ctx,
                   cur, quit, intr, srv, sig, panicked, events, pushed,
                   returned, late, winners, nSignals,
                   nHandled>>

\* cleanupPush, line 111: stack.push(r)
DoPush(c) ==
    /\ ~panicked
    /\ caller[c].pc = "push"
    /\ LET s == caller[c].stack
       IN  /\ stacks' = [stacks EXCEPT ![s] = StackPush(@, caller[c].act)]
           /\ pushed' = [pushed EXCEPT ![s] = Append(@, caller[c].act)]
           /\ caller' = [caller EXCEPT ![c] = Idle]
    /\ late' = (late \/ closing /= 0)
    /\ UNCHANGED <<closing, interrupted, pc, serveNo, timeout, ctx, cur, quit,
                   intr, srv, sig, panicked, events, returned, winners,
                   nPush, nSignals, nHandled>>

\* cleanupPop, lines 115-118: the isClosed check
PopCall(c, s) ==
    /\ ~panicked
    /\ caller[c].pc = "idle"
    /\ caller' = [caller EXCEPT ![c] =
           IF isClosed
           THEN Ret(NoRoutine, FALSE)
           ELSE [pc |-> "pop", stack |-> s, act |-> NoRoutine, ok |-> FALSE]]
    /\ UNCHANGED <<stacks, closing, interrupted, pc, serveNo, timeout, ctx,
                   cur, quit, intr, srv, sig, panicked, hist>>

\* cleanupPop, lines 120-126: stack.pop() and the return
DoPop(c) ==
    /\ ~panicked
    /\ caller[c].pc = "pop"
    /\ LET s == caller[c].stack
           r == StackPop(stacks[s])
       IN  /\ stacks' = [stacks EXCEPT ![s] = r.rest]
           /\ caller' = [caller EXCEPT ![c] = Ret(r.routine, r.ok)]
           /\ returned' = IF r.ok THEN returned \cup {<<c, r.routine>>}
                               ELSE returned
           /\ late' = (late \/ (r.ok /\ closing /= 0))
    /\ UNCHANGED <<closing, interrupted, pc, serveNo, timeout, ctx, cur, quit,
                   intr, srv, sig, panicked, events, pushed, winners,
                   nPush, nSignals, nHandled>>

\* the client takes the call's result and is free to call again
CallerReturn(c) ==
    /\ ~panicked
    /\ caller[c].pc = "ret"
    /\ caller' = [caller EXCEPT ![c] = Idle]
    /\ UNCHANGED <<stacks, closing, interrupted, pc, serveNo, timeout, ctx,
                   cur, quit, intr, srv, sig, panicked, hist>>

(***************************************************************************)
(* Specifications                                                          *)
(***************************************************************************)
MainStep ==
    \/ Wake
    \/ DrainPop
    \/ DrainInvoke

GoroutineStep ==
    \/ \E n \in Calls : ServerTrigger(n)
    \/ \E n \in Calls : ServerClose(n)
    \/ \E n \in Calls : SigRecv(n)
    \/ \E n \in Calls : SigCheck(n)
    \/ \E n \in Calls : SigSet(n)
    \/ \E n \in Calls : SigIsClosed(n)
    \/ \E n \in Calls : SigTrigger(n)
    \/ \E n \in Calls : SigClose(n)

\* the client goroutines in cs make their calls
ClientStep(cs) ==
    \/ \E c \in cs, s \in Stacks : PushCall(c, s)
    \/ \E c \in cs : DoPush(c)
    \/ \E c \in cs, s \in Stacks : PopCall(c, s)
    \/ \E c \in cs : DoPop(c)
    \/ \E c \in cs : CallerReturn(c)

\* one Serve call on a fresh instance, with one client goroutine calling
\* Push and Pop at any time
Next ==
    \/ \E t \in Timeouts : Serve(t)
    \/ MainStep
    \/ \E e \in ShutdownErrs : ShutdownReturn(e)
    \/ \E n \in Calls, e \in ListenErrs : ListenReturn(n, e)
    \/ GoroutineStep
    \/ Deliver
    \/ ClientStep({"c1"})

Spec == Init /\ [][Next]_vars

\* Serve called again on the instance after it returned
NextReuse ==
    \/ Next
    \/ \E t \in Timeouts : ServeAgain(t)

SpecReuse == Init /\ [][NextReuse]_vars

\* The Go scheduler runs every runnable goroutine: the goroutine in Serve
\* (cleanup routines are taken to return), the server goroutine once
\* ListenAndServe has returned, and handleSignal.  Shutdown returns by the
\* deadline of its context when it has one.  Nothing makes the clients, the
\* operating system or ListenAndServe act.
ServerStep(n) == ServerTrigger(n) \/ ServerClose(n)

SignalStep(n) ==
    \/ SigRecv(n)
    \/ SigCheck(n)
    \/ SigSet(n)
    \/ SigIsClosed(n)
    \/ SigTrigger(n)
    \/ SigClose(n)

DeadlineStep == ctx = "WithTimeout" /\ \E e \in ShutdownErrs : ShutdownReturn(e)

\* ns: the Serve calls whose goroutines exist
Fairness(ns) ==
    /\ WF_vars(MainStep)
    /\ WF_vars(DeadlineStep)
    /\ \A n \in ns : WF_vars(ServerStep(n))
    /\ \A n \in ns : WF_vars(SignalStep(n))

FairSpec == Spec /\ Fairness({1})

FairSpecReuse == SpecReuse /\ Fairness(Calls)

\* one Serve call on a fresh instance that ends because the server exits,
\* with every client goroutine calling Push and Pop at any time
NextClients ==
    \/ Serve(0)
    \/ MainStep
    \/ ShutdownReturn("nil")
    \/ ListenReturn(1, "error")
    \/ ServerStep(1)
    \/ ClientStep(Callers)

SpecClients == Init /\ [][NextClients]_vars

(***************************************************************************)
(* What the Serve call did, read off events                                *)
(***************************************************************************)
Reverse(seq) == [i \in 1..Len(seq) |-> seq[Len(seq) + 1 - i]]

\* the indices of the events of kind k on stack s
At(k, s) == {i \in 1..Len(events) : events[i].kind = k /\ events[i].stack = s}

\* the cleanupRoutines the drain of stack s invoked, in order
Invoked(s) ==
    LET runs == SelectSeq(events, LAMBDA e : e.kind = "run" /\ e.stack = s)
    IN  [i \in 1..Len(runs) |-> runs[i].act]

\* the drain of stack s has ended
Drained(s) == At("drainEnd", s) /= {}

(***************************************************************************)
(* C1. Ordering law: every cleanupRoutine Serve pops from preRoutines has  *)
(* finished running before Server.Shutdown is called, and Shutdown has     *)
(* returned before any cleanupRoutine popped from postRoutines runs.       *)
(***************************************************************************)
OrderingLaw ==
    /\ \A i \in At("run", "pre"), j \in At("stopBegin", "none") : i < j
    /\ \A i \in At("run", "post") : \E j \in At("stopEnd", "none") : j < i
    \* nothing popped is still running when Shutdown is called
    /\ pc = "stop" => cur = NoRoutine /\ Drained("pre")
    \* nothing is popped from postRoutines before Shutdown has returned
    /\ (pc = "post" /\ cur /= NoRoutine) => At("stopEnd", "none") /= {}
    /\ \A i \in At("drainEnd", "pre"), j \in At("stopBegin", "none") : i < j

\* a Serve call that ran a pre-routine, then Shutdown, then a post-routine
OrderingWitness ==
    /\ pc = "done"
    /\ At("run", "pre") /= {}
    /\ At("run", "post") /= {}
    /\ At("stopEnd", "none") /= {}

(***************************************************************************)
(* C2. LIFO law: when a1..an were pushed onto one stack before the gate    *)
(* triggered and no client popped or pushed concurrently, the drain of     *)
(* that stack invokes an, ..., a1 in that order, each with the routine and *)
(* argument it was pushed with, and leaves the stack empty.                *)
(***************************************************************************)
LifoLaw ==
    \A s \in Stacks :
        (Drained(s) /\ ~late /\ returned = {}) =>
            /\ Invoked(s) = Reverse(pushed[s])
            /\ stacks[s] = <<>>

\* two routines were pushed on the pre-stack and the drain has ended
LifoWitness ==
    /\ Drained("pre")
    /\ ~late
    /\ returned = {}
    /\ Len(pushed["pre"]) = 2
    /\ pushed["pre"][1].arg /= pushed["pre"][2].arg

(***************************************************************************)
(* C3. Single-trigger law: of the trigger attempts of a Serve call (the    *)
(* server goroutine, handleSignal for each signal) exactly one wins the    *)
(* compare-and-swap of closing from 0 to 1, the others change nothing,     *)
(* and quit is closed exactly once, never twice.                           *)
(***************************************************************************)
SingleTrigger ==
    /\ Cardinality(winners) <= 1
    /\ (closing /= 0) = (winners /= {})
    /\ \A n \in Calls : quit[n] <= 1
    /\ ~panicked
    \* quit is closed by the winner, and only by it
    /\ \A n \in Calls :
          /\ quit[n] = 1 => \E w \in winners : w[1] = n
          /\ srv[n] = "close" => (<<n, "server">> \in winners /\ quit[n] = 0)
          /\ sig[n] = "close" => (<<n, "signal">> \in winners /\ quit[n] = 0)
          \* once an attempt has been made there is a winner, and once every
          \* goroutine is past its close the channel is closed
          /\ srv[n] \in {"close", "end"} => Cardinality(winners) = 1
          /\ (srv[n] = "end" /\ sig[n] = "recv") => quit[n] = 1

\* the signal won, the server goroutine tried afterwards and lost
SingleTriggerWitness ==
    /\ srv[1] = "end"
    /\ winners = {<<1, "signal">>}
    /\ quit[1] = 1
    /\ nHandled = 2

(***************************************************************************)
(* C4. Rejection-after-close: once closing /= 0 a Push or Pop call is not  *)
(* accepted (Pop returns nil, nil, false) and changes neither stack, and   *)
(* after the trigger the stacks are changed by the pops of Serve's drains  *)
(* only.                                                                   *)
(***************************************************************************)
RejectionAfterClose ==
    [][ /\ \A c \in Callers :
              (closing /= 0 /\ caller[c].pc = "idle" /\ caller'[c].pc /= "idle")
                  => (caller'[c] = Ret(NoRoutine, FALSE) /\ stacks' = stacks)
        /\ (closing /= 0 /\ stacks' /= stacks)
              => (caller' = caller /\ cur = NoRoutine /\ cur' /= NoRoutine)
      ]_vars

(***************************************************************************)
(* C5. No accepted action is left un-run: when Serve returns, every        *)
(* cleanupRoutine appended to a stack that no Pop call has removed or is   *)
(* about to remove has been invoked by the drain of its stack.             *)
(***************************************************************************)
NoAcceptedActionLeftUnrun ==
    [][ ( /\ pc /= "done"
          /\ pc' = "done"
          /\ \A c \in Callers : caller'[c].pc /= "pop" )
            => \A s \in Stacks : stacks'[s] = <<>>
      ]_vars

(***************************************************************************)
(* C6. Idempotent signal handling: when two signals reach handleSignal     *)
(* during a Serve call there is one shutdown sequence (one drain of each   *)
(* stack, one Shutdown call, one close of quit), and the second signal     *)
(* gets no further than the interrupted test.                              *)
(***************************************************************************)
IdempotentSignals ==
    nHandled >= 2 =>
        /\ interrupted
        /\ \A n \in Calls : sig[n] \in {"none", "recv", "check"}
        /\ Cardinality(winners) = 1
        /\ \A n \in Calls : quit[n] <= 1
        /\ ~panicked
        /\ Cardinality(At("stopBegin", "none")) <= 1
        /\ \A s \in Stacks : Cardinality(At("drainEnd", s)) <= 1
        /\ pc = "done" =>
              /\ Cardinality(At("stopBegin", "none")) = 1
              /\ \A s \in Stacks : Cardinality(At("drainEnd", s)) = 1

\* both signals were handled and Serve has returned
IdempotentSignalsWitness ==
    /\ nHandled = 2
    /\ sig[1] = "recv"
    /\ pc = "done"
    /\ <<1, "signal">> \in winners

(***************************************************************************)
(* C7. Service exit is a shutdown request: when ListenAndServe returns,    *)
(* with an error or with ErrServerClosed, and no signal is delivered, the  *)
(* server goroutine triggers the gate and closes quit, Serve wakes, and    *)
(* each stack is drained exactly once.                                     *)
(***************************************************************************)
ServiceExitTriggers ==
    nSignals = 0 =>
        /\ srv[1] \in {"close", "end"} =>
              (winners = {<<1, "server">>} /\ closing = 1)
        /\ srv[1] = "end" => quit[1] = 1
        /\ pc \in {"pre", "stop", "post", "done"} => srv[1] = "end"
        /\ pc = "done" =>
              /\ Cardinality(At("stopBegin", "none")) = 1
              /\ \A s \in Stacks : Cardinality(At("drainEnd", s)) = 1

\* ListenAndServe returned, no signal came, and Serve ran to its end
ServiceExitWitness ==
    /\ nSignals = 0
    /\ srv[1] = "end"
    /\ winners = {<<1, "server">>}
    /\ pc = "done"
    /\ At("run", "pre") /= {}
    /\ At("run", "post") /= {}

(***************************************************************************)
(* C8. Post-cleanup runs whatever Shutdown returns: once Shutdown has      *)
(* returned (nil, a deadline error or another error) Serve is draining     *)
(* the post-stack or has drained it; it never returns without.             *)
(***************************************************************************)
PostCleanupAfterStop ==
    /\ \A i \in At("stopEnd", "none") :
          /\ pc \in {"post", "done"}
          /\ pc = "done" => \E j \in At("drainEnd", "post") : i < j
    /\ pc = "done" => At("stopEnd", "none") /= {}

\* Shutdown ran out of time and the post-stack was drained all the same
PostCleanupWitness ==
    /\ pc = "done"
    /\ \E i \in At("stopEnd", "none") : events[i].out = "DeadlineExceeded"
    /\ At("run", "post") /= {}
    /\ stacks["post"] = <<>>

(***************************************************************************)
(* C9. Forward progress: in a Serve call with timeout > 0, once a signal   *)
(* has been delivered or ListenAndServe has returned, Serve eventually     *)
(* returns, under fair scheduling of the goroutines.                       *)
(***************************************************************************)
ForwardProgress ==
    ( /\ serveNo = 1
      /\ timeout > 0
      /\ (nSignals > 0 \/ srv[1] \in {"cas", "close", "end"}) )
        ~> (pc = "done")

\* a signal-triggered Serve call with a deadline has returned after a
\* failed Shutdown
ForwardProgressWitness ==
    /\ pc = "done"
    /\ \E i \in At("stopBegin", "none") : events[i].out = "WithTimeout"
    /\ winners = {<<1, "signal">>}
    /\ \E i \in At("stopEnd", "none") : events[i].out = "error"

(***************************************************************************)
(* C10. As claimed: a second Serve call on the instance, once the server   *)
(* goroutine of that call has seen ListenAndServe return, eventually       *)
(* returns.                                                                *)
(***************************************************************************)
SecondServeReturns ==
    (serveNo = 2 /\ srv[2] \in {"cas", "close", "end"})
        ~> (serveNo = 2 /\ pc = "done")

(***************************************************************************)
(* C10, amended. A Serve call made after an earlier one returned never     *)
(* gets past <-quit: closing is still 1, no trigger attempt of the new     *)
(* call wins, its quit channel is never closed, and it invokes none of the *)
(* cleanupRoutines left on the stacks.                                     *)
(***************************************************************************)
SecondServeBlocks ==
    serveNo >= 2 =>
        /\ pc = "wait"
        /\ closing = 1
        /\ quit[serveNo] = 0
        /\ events = <<>>
        /\ cur = NoRoutine
        /\ \A w \in winners : w[1] = 1

\* the second call is blocked with a routine left on the pre-stack, after
\* its server goroutine exited and a signal was handled
SecondServeWitness ==
    /\ serveNo = 2
    /\ pc = "wait"
    /\ srv[2] = "end"
    /\ stacks["pre"] /= <<>>
    /\ nHandled >= 1
    /\ sig[2] = "recv"
    /\ intr[2] = 0

(***************************************************************************)
(* C11. No cleanup before the trigger: while closing = 0 Serve has invoked *)
(* no cleanupRoutine, popped none and not called Shutdown; whenever Serve  *)
(* is in preCleanup, Shutdown or postCleanup, closing /= 0 and the quit    *)
(* channel of the call is closed.                                          *)
(***************************************************************************)
NoCleanupBeforeTrigger ==
    /\ pc \in {"pre", "stop", "post"} =>
          (closing /= 0 /\ quit[serveNo] >= 1)
    /\ (closing = 0 \/ (serveNo > 0 /\ quit[serveNo] = 0)) =>
          /\ events = <<>>
          /\ cur = NoRoutine
          /\ pc \in {"idle", "wait"}

\* Serve, woken by the close of quit, has popped a routine of the pre-stack
NoCleanupWitness ==
    /\ pc = "pre"
    /\ cur /= NoRoutine
    /\ closing = 1
    /\ quit[1] = 1

(***************************************************************************)
(* C12. As claimed: closing holds a CLOSING value while the shutdown       *)
(* sequence runs and a distinct CLOSED value once Serve has returned.      *)
(***************************************************************************)
TriStateGate == pc = "done" => closing \notin {0, 1}

(***************************************************************************)
(* C12, amended. closing has two values: it is 0 until the one winning     *)
(* compare-and-swap sets it to 1, it is 1 throughout the shutdown sequence *)
(* and still 1 when Serve has returned; the only change of closing is from *)
(* 0 to 1 and the goroutine calling Serve never makes it.                  *)
(***************************************************************************)
TwoStateGate ==
    /\ [](closing \in {0, 1})
    /\ [](pc \in {"pre", "stop", "post", "done"} => closing = 1)
    /\ [][closing' /= closing => (closing = 0 /\ closing' = 1 /\ pc' = pc)]_vars

\* Serve has returned after both drains and Shutdown, closing still 1
TwoStateWitness ==
    /\ pc = "done"
    /\ closing = 1
    /\ Drained("pre")
    /\ Drained("post")
    /\ At("stopEnd", "none") /= {}

(***************************************************************************)
(* C13. Exclusive ownership of a popped action: whatever the interleaving  *)
(* of the clients' Pop calls with Serve's drains, every cleanupRoutine     *)
(* appended to a stack is in exactly one place: still on its stack, popped *)
(* by the drain (about to be invoked, or invoked once), or returned to one *)
(* Pop caller; never two of these and never one of them twice.             *)
(***************************************************************************)
\* how often a occurs in seq
Occurrences(seq, a) == Cardinality({i \in 1..Len(seq) : seq[i] = a})

\* the clients a Pop call has handed a to
Owners(a) == {c \in Callers : <<c, a>> \in returned}

\* how often the drains invoked a
Runs(a) == Cardinality({i \in 1..Len(events) :
                           events[i].kind = "run" /\ events[i].act = a})

ExclusiveOwnership ==
    \A s \in Stacks : \A i \in 1..Len(pushed[s]) :
        LET a == pushed[s][i]
        IN  /\ Occurrences(stacks["pre"], a) + Occurrences(stacks["post"], a)
                 + (IF cur = a THEN 1 ELSE 0) + Runs(a)
                 + Cardinality(Owners(a)) = 1
            \* a call that is handing a to its client is an owner of a
            /\ \A c \in Callers :
                  (caller[c].pc = "ret" /\ caller[c].act = a) => c \in Owners(a)

\* of two routines on the pre-stack, a Pop call that passed the closed-check
\* before the trigger took one while the drain invoked the other
ExclusiveOwnershipWitness ==
    /\ Len(pushed["pre"]) = 2
    /\ pc = "done"
    /\ Cardinality(At("run", "pre")) = 1
    /\ \E c \in Callers : <<c, pushed["pre"][1]>> \in returned

(***************************************************************************)
(* C14. Stack linearizability while the gate is open: with several clients *)
(* pushing and popping concurrently, each stack holds the routines pushed  *)
(* on it and not popped, once each, in the order of their pushes (no push  *)
(* is lost, nothing appears twice); a push puts its routine on top and     *)
(* changes nothing below, and a Pop returns the routine that was on top    *)
(* when it took the lock and removes exactly it, or reports an empty       *)
(* stack.                                                                  *)
(***************************************************************************)
\* the routines pushed on stack s that no Pop call has returned
Remaining(s) == SelectSeq(pushed[s], LAMBDA a : Owners(a) = {})

Linearizable ==
    /\ [](closing = 0 => \A s \in Stacks : stacks[s] = Remaining(s))
    /\ [][ closing = 0 => \A c \in Callers :
              LET s == caller[c].stack
              IN  /\ (caller[c].pc = "push" /\ caller'[c].pc /= "push") =>
                        /\ stacks'[s] = Append(stacks[s], caller[c].act)
                        /\ \A o \in Stacks \ {s} : stacks'[o] = stacks[o]
                  /\ (caller[c].pc = "pop" /\ caller'[c].pc /= "pop") =>
                        /\ caller'[c].pc = "ret"
                        /\ \A o \in Stacks \ {s} : stacks'[o] = stacks[o]
                        /\ IF stacks[s] = <<>>
                           THEN /\ caller'[c] = Ret(NoRoutine, FALSE)
                                /\ stacks'[s] = <<>>
                           ELSE /\ caller'[c] =
                                      Ret(stacks[s][Len(stacks[s])], TRUE)
                                /\ stacks'[s] =
                                      SubSeq(stacks[s], 1, Len(stacks[s]) - 1)
      ]_vars

\* of two routines pushed on the pre-stack one client has popped the top
\* while the other is in a Pop call on the same stack, the gate still open
LinearizableWitness ==
    /\ closing = 0
    /\ Len(pushed["pre"]) = 2
    /\ returned = {<<"c2", pushed["pre"][2]>>}
    /\ stacks["pre"] = <<pushed["pre"][1]>>
    /\ caller["c1"].pc = "pop"
    /\ caller["c1"].stack = "pre"
    /\ caller["c2"] = Ret(pushed["pre"][2], TRUE)

(***************************************************************************)
(* C15. The stop call is given a deadline if and only if timeout > 0:      *)
(* Shutdown runs with a context that expires when timeout > 0 and with a   *)
(* context without deadline when timeout is zero or negative; only a call  *)
(* with a deadline ends by the deadline, and Serve is in post-cleanup or   *)
(* has returned only after Shutdown itself returned.                       *)
(***************************************************************************)
DeadlineIffPositive ==
    /\ pc \in {"stop", "post"} =>
          /\ ctx \in {"WithTimeout", "Background"}
          /\ (ctx = "WithTimeout") <=> (timeout > 0)
          /\ \A i \in At("stopBegin", "none") : events[i].out = ctx
    /\ \A j \in At("stopEnd", "none") :
          events[j].out = "DeadlineExceeded" =>
              \E i \in At("stopBegin", "none") :
                  i < j /\ events[i].out = "WithTimeout"
    /\ pc \in {"post", "done"} => At("stopEnd", "none") /= {}

\* Serve(0) is in Shutdown with a context that has no deadline
DeadlineWitness ==
    /\ pc = "stop"
    /\ timeout = 0
    /\ ctx = "Background"
    /\ At("run", "pre") /= {}

(***************************************************************************)
(* C16. The signal watcher lives for one Serve call: once Serve has        *)
(* returned, the handleSignal goroutine it started receives no further     *)
(* signal and writes neither interrupted nor closing.                      *)
(***************************************************************************)
WatcherEndsWithServe ==
    [][ (pc = "done" /\ pc' = "done") =>
            /\ nHandled' = nHandled
            /\ interrupted' = interrupted
            /\ closing' = closing
      ]_vars

(***************************************************************************)
(* C17. Stack independence: a Push or Pop call on one stack leaves the     *)
(* other stack unchanged, a pop of a drain leaves the other stack          *)
(* unchanged, preCleanup (before Shutdown) pops and invokes only routines  *)
(* pushed on the pre-stack and postCleanup (after Shutdown) only routines  *)
(* pushed on the post-stack.                                               *)
(***************************************************************************)
\* the drain that made the i-th event: preCleanup before Shutdown is called,
\* postCleanup after
PhaseOf(i) ==
    IF \E j \in At("stopBegin", "none") : j < i THEN "post" ELSE "pre"

EmptyPop ==
    [][ closing = 0 => \A c \in Callers :
          LET s == caller[c].stack
          IN  /\ ( /\ caller[c].pc = "pop"
                    /\ caller'[c].pc /= "pop"
                    /\ stacks[s] = <<>> ) =>
                      /\ caller'[c] = Ret(NoRoutine, FALSE)
                      /\ stacks' = stacks
                      /\ closing' = 0
                      /\ quit' = quit
                      /\ winners' = winners
                      /\ interrupted' = interrupted
              /\ ( /\ caller[c].pc = "push"
                    /\ caller'[c].pc /= "push"
                    /\ stacks[s] = <<>> ) =>
                      stacks'[s] = <<caller[c].act>>
              /\ ( /\ caller[c].pc = "pop"
                    /\ caller'[c].pc /= "pop"
                    /\ Len(stacks[s]) = 1 ) =>
                      /\ caller'[c] = Ret(stacks[s][1], TRUE)
                      /\ stacks'[s] = <<>>
      ]_vars

\* a Pop call has found a stack empty that nothing was ever pushed on, the
\* gate is open, and a Push on the pre-stack is about to append its routine
EmptyPopWitness ==
    /\ closing = 0
    /\ caller["c2"] = Ret(NoRoutine, FALSE)
    /\ \A s \in Stacks : pushed[s] = <<>>
    /\ caller["c1"].pc = "push"
    /\ caller["c1"].stack = "pre"

(***************************************************************************)
(* C19. The gate flag is monotonic over the life of the instance: once     *)
(* closing is non-zero no step (of a client, a signal, a server goroutine, *)
(* Serve returning or Serve being called again) changes it, and every Push *)
(* or Pop call made from then on is rejected at the closed-check and       *)
(* changes neither stack.                                                  *)
(***************************************************************************)
GateMonotonic ==
    [][ closing /= 0 =>
          /\ closing' = closing
          /\ \A c \in Callers :
                (caller[c].pc = "idle" /\ caller'[c].pc /= "idle") =>
                    /\ caller'[c].pc = "ret"
                    /\ caller'[c].act = NoRoutine
                    /\ ~caller'[c].ok
                    /\ stacks' = stacks
                    /\ pushed' = pushed
                    /\ nPush' = nPush
      ]_vars

\* Serve was called again, its server goroutine has made its attempt, the
\* gate is still closed and a client's call has just been rejected
GateMonotonicWitness ==
    /\ serveNo = 2
    /\ closing = 1
    /\ srv[2] = "end"
    /\ nHandled >= 1
    /\ caller["c1"] = Ret(NoRoutine, FALSE)

(***************************************************************************)
(* C20. Re-entrant registration during a drain is rejected: a Push or Pop  *)
(* a cleanup routine issues while a drain invokes it is rejected at the    *)
(* closed-check and changes neither stack; routines are accepted only by   *)
(* Push calls that passed the closed-check while closing = 0, and a drain  *)
(* invokes only such routines of its stack, each at most once: no more     *)
(* invocations than routines the stack held when the drain began plus      *)
(* pushes that had passed the closed-check before the trigger.             *)
(***************************************************************************)
ReentrantRejected ==
    /\ [][ (cur /= NoRoutine /\ cur' = NoRoutine) =>
              /\ stacks' = stacks
              /\ events' = Append(events,
                                  Event("run", StackOf(pc), cur, "rejected"))
        ]_vars
    /\ [][nPush' /= nPush => closing = 0]_vars
    /\ [](\A s \in Stacks :
             /\ Len(Invoked(s)) + Len(stacks[s]) <= Len(pushed[s])
             /\ \A i \in 1..Len(Invoked(s)) :
                   /\ Occurrences(pushed[s], Invoked(s)[i]) = 1
                   /\ Occurrences(Invoked(s), Invoked(s)[i]) = 1)

\* the drain of the pre-stack invoked both routines pushed on it and the
\* call each of them made was rejected
ReentrantRejectedWitness ==
    /\ Drained("pre")
    /\ Len(pushed["pre"]) = 2
    /\ Len(Invoked("pre")) = 2
    /\ \A i \in At("run", "pre") : events[i].out = "rejected"
    /\ stacks["pre"] = <<>>

====
